---------------------------- MODULE Spec2Model ----------------------------
(***************************************************************************)
(* Model of four clients of dataikuapi.                                    *)
(*                                                                         *)
(* dss/wiki.py: DSSWiki (get_settings, __flatten_taxonomy__,               *)
(* list_articles) and DSSWikiSettings (get_taxonomy,                       *)
(* __retrieve_article_in_taxonomy__, move_article_in_taxonomy,             *)
(* set_taxonomy, set_home_article_id, save).                               *)
(* dss/webapp.py: DSSWebApp (stop, restart, get_status), DSSWebAppStatus.  *)
(* dss/dataset.py: DSSDataset.build.                                       *)
(* fm/virtualnetworks.py: FMVirtualNetworkCreator and                      *)
(* FMAWSVirtualNetworkCreator.                                             *)
(*                                                                         *)
(* A taxonomy is a forest: a sequence of nodes [id, children].  Python     *)
(* list objects have identity, so the top-level taxonomy lists live in a   *)
(* heap and settings["taxonomy"] holds a reference into it; the reference  *)
(* a caller got from get_taxonomy() is a second root of that heap.  List   *)
(* objects are named up to renaming: SettingsRef names the list that       *)
(* settings["taxonomy"] is bound to, CallerOwnRef the caller's list once   *)
(* it is another object; a list nobody references is reclaimed.            *)
(***************************************************************************)
EXTENDS Integers, Sequences, FiniteSets, TLC

VARIABLES remote,     \* the settings document stored by the server
          settings,   \* self.settings of the DSSWikiSettings the caller holds
          heap,       \* list objects: reference -> forest
          callerRef,  \* the list the caller holds from get_taxonomy()
          base,       \* history: the document the server last returned
          refTrack,   \* history: "none", or since get_taxonomy(): "held" (moves
                      \* only), "edited" (then caller edits), "moved" (then more)
          last,       \* history: the last call, its arguments and its outcome
          returned,   \* history: the value the last call returned, for the
                      \* calls whose return value is recorded
          held,       \* two sessions: the settings object each session holds
          objs,       \* two sessions: the settings objects, object -> document
          pc,         \* two sessions: the position of each session
          log,        \* history, two sessions: the calls made, in order
          data,       \* self.data of the virtual network builder
          use_default_values,  \* self.use_default_values of the builder
          webapp,     \* the attributes of the DSSWebApp handle
          backend,    \* the backend state of the webapp on the server
          jobState,   \* the state on the server of the job build() started
          vn_data,    \* self.vn_data of the FMVirtualNetwork handle
          vn_remote   \* the virtual network as the server holds it

wikiVars == <<remote, settings, heap, callerRef, base, refTrack>>

sessionVars == <<held, objs, pc, log>>

fmVars == <<data, use_default_values>>

dssVars == <<webapp, backend, jobState>>

vnVars == <<vn_data, vn_remote>>

vars == <<wikiVars, last, returned, sessionVars, fmVars, dssVars, vnVars>>

---------------------------------------------------------------------------
(* Bounds *)

\* articles of the wiki on the server: ids 1..NArticles
NArticles == 2
\* ids used by the forests of SpecMove: 1..MaxId
MaxId == 3
\* largest number of nodes of a forest of SpecMove
MaxNodes == 3
\* largest number of security groups a caller passes to the builder
MaxGroups == 6
NoId == 0          \* Python None as an article id
NoRef == 0         \* no reference held
SettingsRef == 1   \* the list settings["taxonomy"] is bound to
CallerOwnRef == 2  \* the list of the caller, when it is another object
Refs == {SettingsRef, CallerOwnRef}
ArticleIds == 1..NArticles
\* ids a caller passes in Spec: the articles and one id of no article
CallIds == 1..(NArticles + 1)
MoveIds == 1..MaxId

---------------------------------------------------------------------------
(* Forests *)

Node(i, c) == [id |-> i, children |-> c]

Leaf(i) == Node(i, <<>>)

RECURSIVE ForestsOfSize(_, _)
\* all forests of exactly n nodes with ids drawn from ids (repeats allowed)
ForestsOfSize(n, ids) ==
  IF n = 0 THEN {<<>>}
  ELSE UNION { { <<Node(i, c)>> \o r :
                   i \in ids,
                   c \in ForestsOfSize(k - 1, ids),
                   r \in ForestsOfSize(n - k, ids) } : k \in 1..n }

Forests(maxn, ids) == UNION { ForestsOfSize(n, ids) : n \in 0..maxn }

RECURSIVE NodeCount(_)
NodeCount(f) ==
  IF f = <<>> THEN 0
  ELSE 1 + NodeCount(Head(f).children) + NodeCount(Tail(f))

RECURSIVE PreOrderIds(_)
\* the ids of a forest: roots left to right, a node before its children
PreOrderIds(f) ==
  IF f = <<>> THEN <<>>
  ELSE <<Head(f).id>> \o PreOrderIds(Head(f).children) \o PreOrderIds(Tail(f))

IdsOf(f) == { PreOrderIds(f)[k] : k \in 1..Len(PreOrderIds(f)) }

Occurrences(f, i) ==
  Cardinality({ k \in 1..Len(PreOrderIds(f)) : PreOrderIds(f)[k] = i })

UniqueIds(f) == \A i \in IdsOf(f) : Occurrences(f, i) = 1

RECURSIVE NodesOf(_)
\* every node of a forest, as the subtree rooted at it
NodesOf(f) ==
  IF f = <<>> THEN {}
  ELSE {Head(f)} \cup NodesOf(Head(f).children) \cup NodesOf(Tail(f))

\* with unique ids: the subtree rooted at the node i
SubtreeOf(f, i) == CHOOSE n \in NodesOf(f) : n.id = i

SubtreeIds(f, i) == IdsOf(<<SubtreeOf(f, i)>>)

ChildIds(s) == { s[k].id : k \in 1..Len(s) }

\* with unique ids: the id of the parent of node i, NoId for a root
ParentOf(f, i) ==
  IF \E n \in NodesOf(f) : i \in ChildIds(n.children)
  THEN (CHOOSE n \in NodesOf(f) : i \in ChildIds(n.children)).id
  ELSE NoId

\* the sibling sequence below parent p (the root sequence for NoId)
SiblingsUnder(f, p) == IF p = NoId THEN f ELSE SubtreeOf(f, p).children

---------------------------------------------------------------------------
(* Python list operations used by the code *)

\* a pop that leaves the list as it was
PopKeeps(taxonomy, idx) == taxonomy

\* a pop of the first element whatever the index
PopFirst(taxonomy, idx) == Tail(taxonomy)

\* list.pop(idx), idx counted from 1 here
Pop(taxonomy, idx) ==
  SubSeq(taxonomy, 1, idx - 1) \o SubSeq(taxonomy, idx + 1, Len(taxonomy))

\* an insert at the front instead of an append
ListPrepend(list, x) == <<x>> \o list

\* list.append(x)
ListAppend(list, x) == list \o <<x>>

\* an append to the root sequence whatever the parent
AppendAtRoot(taxonomy, path, x) == ListAppend(taxonomy, x)

RECURSIVE AppendBeside(_, _, _)
\* an append to the list that holds the node reached by the index path,
\* instead of to its children
AppendBeside(taxonomy, path, x) ==
  IF Len(path) <= 1 THEN ListAppend(taxonomy, x)
  ELSE [taxonomy EXCEPT ![Head(path)].children =
          AppendBeside(taxonomy[Head(path)].children, Tail(path), x)]

RECURSIVE AppendAt(_, _, _)
\* node["children"].append(x) for the node reached by the index path
AppendAt(taxonomy, path, x) ==
  IF path = <<>> THEN ListAppend(taxonomy, x)
  ELSE [taxonomy EXCEPT ![Head(path)].children =
          AppendAt(taxonomy[Head(path)].children, Tail(path), x)]

RECURSIVE RetrieveFrom(_, _, _, _)
\* the loop of __retrieve_article_in_taxonomy__ from position idx on.
\* ret is <<>> for None and <<node>> otherwise; path locates the returned
\* node (the reference the code returns); taxonomy is the list after the call.
RetrieveFrom(taxonomy, idx, article_id, remove) ==
  IF idx > Len(taxonomy)
  THEN [ret |-> <<>>, path |-> <<>>, taxonomy |-> taxonomy]
  ELSE LET tax_article == taxonomy[idx] IN
       IF tax_article.id = article_id
       THEN [ret |-> <<tax_article>>,
             path |-> <<idx>>,
             taxonomy |-> IF remove THEN Pop(taxonomy, idx) ELSE taxonomy]
       ELSE LET children_ret ==
                  RetrieveFrom(tax_article.children, 1, article_id, remove) IN
            IF children_ret.ret # <<>>
            THEN [ret |-> children_ret.ret,
                  path |-> <<idx>> \o children_ret.path,
                  taxonomy |-> [taxonomy EXCEPT
                                  ![idx].children = children_ret.taxonomy]]
            ELSE RetrieveFrom(taxonomy, idx + 1, article_id, remove)

\* a removal that pops the last root when nothing matched
RetrievePopsLast(taxonomy, article_id, remove) ==
  LET r == RetrieveFrom(taxonomy, 1, article_id, remove) IN
  IF r.ret = <<>> /\ remove /\ taxonomy # <<>>
  THEN [r EXCEPT !.taxonomy = SubSeq(taxonomy, 1, Len(taxonomy) - 1)]
  ELSE r

\* a lookup that removes whatever the flag
RetrieveRemoving(taxonomy, article_id, remove) ==
  RetrieveFrom(taxonomy, 1, article_id, TRUE)

\* a lookup among the roots only, without the descent into children
RetrieveTopLevel(taxonomy, article_id, remove) ==
  LET hits == { k \in 1..Len(taxonomy) : taxonomy[k].id = article_id } IN
  IF hits = {}
  THEN [ret |-> <<>>, path |-> <<>>, taxonomy |-> taxonomy]
  ELSE LET idx == CHOOSE k \in hits : \A j \in hits : k <= j IN
       [ret |-> <<taxonomy[idx]>>,
        path |-> <<idx>>,
        taxonomy |-> IF remove THEN Pop(taxonomy, idx) ELSE taxonomy]

\* a lookup that tries the nodes of the list it is given before it descends
\* into the children of any of them
RetrieveLevelFirst(taxonomy, article_id, remove) ==
  IF RetrieveTopLevel(taxonomy, article_id, remove).ret # <<>>
  THEN RetrieveTopLevel(taxonomy, article_id, remove)
  ELSE RetrieveFrom(taxonomy, 1, article_id, remove)

\* __retrieve_article_in_taxonomy__(taxonomy, article_id, remove)
Retrieve(taxonomy, article_id, remove) ==
  RetrieveFrom(taxonomy, 1, article_id, remove)

\* no rollback: the key keeps the list the article was removed from
RestoreSkipped(old_taxonomy, current) == current

\* a rollback from copy.copy: the root list is restored, nested lists are not
RestoreShallow(old_taxonomy, current) ==
  IF Len(current) = Len(old_taxonomy) THEN current ELSE old_taxonomy

\* self.settings["taxonomy"] = old_taxonomy: the value the key is rebound to
Restore(old_taxonomy, current) == old_taxonomy

\* a move that also refuses, with the rollback, a parent id that occurs in
\* the subtree it has detached
MoveOutcomeChecked(taxonomy, article_id, parent_article_id) ==
  LET found == Retrieve(taxonomy, article_id, TRUE) IN
  IF found.ret = <<>>
  THEN [result |-> "ArticleNotFound", inplace |-> found.taxonomy,
        rebound |-> FALSE, taxonomy |-> found.taxonomy]
  ELSE IF parent_article_id = NoId
  THEN [result |-> "ok", inplace |-> ListAppend(found.taxonomy, found.ret[1]),
        rebound |-> FALSE,
        taxonomy |-> ListAppend(found.taxonomy, found.ret[1])]
  ELSE LET parent == Retrieve(found.taxonomy, parent_article_id, FALSE) IN
       IF parent.ret = <<>> \/ parent_article_id \in IdsOf(found.ret)
       THEN [result |-> "ParentNotFound", inplace |-> found.taxonomy,
             rebound |-> TRUE, taxonomy |-> taxonomy]
       ELSE [result |-> "ok",
             inplace |-> AppendAt(found.taxonomy, parent.path, found.ret[1]),
             rebound |-> FALSE,
             taxonomy |-> AppendAt(found.taxonomy, parent.path, found.ret[1])]

\* move_article_in_taxonomy on the list value taxonomy.
\*   result   : "ok" or the exception raised
\*   inplace  : the original list object after the call
\*   rebound  : TRUE when settings["taxonomy"] was rebound to another list
\*   taxonomy : the value of settings["taxonomy"] after the call
MoveOutcome(taxonomy, article_id, parent_article_id) ==
  LET old_taxonomy == taxonomy
      found == Retrieve(taxonomy, article_id, TRUE)
  IN IF found.ret = <<>>
     THEN [result |-> "ArticleNotFound", inplace |-> found.taxonomy,
           rebound |-> FALSE, taxonomy |-> found.taxonomy]
     ELSE LET tax_article == found.ret[1] IN
          IF parent_article_id = NoId
          THEN LET t == ListAppend(found.taxonomy, tax_article) IN
               [result |-> "ok", inplace |-> t, rebound |-> FALSE,
                taxonomy |-> t]
          ELSE LET parent == Retrieve(found.taxonomy, parent_article_id, FALSE) IN
               IF parent.ret = <<>>
               THEN [result |-> "ParentNotFound", inplace |-> found.taxonomy,
                     rebound |-> TRUE,
                     taxonomy |-> Restore(old_taxonomy, found.taxonomy)]
               ELSE LET t == AppendAt(found.taxonomy, parent.path,
                                      tax_article) IN
                    [result |-> "ok", inplace |-> t, rebound |-> FALSE,
                     taxonomy |-> t]

---------------------------------------------------------------------------
(* Documents and list objects *)

\* no document / no settings object
NoDoc == <<>>

\* dict[key] = value
DictSet(d, key, value) == (key :> value) @@ d

\* the fields of a wiki settings document that the client does not interpret
Opaque == [k \in {"projectKey"} |-> "P"]

MakeDoc(taxonomy, home, opaque) ==
  DictSet(DictSet(opaque, "homeArticleId", home), "taxonomy", taxonomy)

RECURSIVE FlatForest(_)
\* the articles 1..n as roots without children
FlatForest(n) == IF n = 0 THEN <<>> ELSE FlatForest(n - 1) \o <<Leaf(n)>>

\* the document the server holds when the client starts
InitialDoc == MakeDoc(FlatForest(NArticles), NoId, Opaque)

\* the taxonomy the server requires: every article once and only once
WellFormed(taxonomy) ==
  /\ IdsOf(taxonomy) = ArticleIds
  /\ UniqueIds(taxonomy)

RECURSIVE Reverse(_)
Reverse(s) == IF s = <<>> THEN <<>> ELSE Reverse(Tail(s)) \o <<Head(s)>>

\* what the server may answer to an accepted PUT of body: the body as sent,
\* or its canonical form with the roots reordered
PutResponses(body) ==
  { body, DictSet(body, "taxonomy", Reverse(body["taxonomy"])) }

\* a save that sends its request again
PutTwice == <<"PUT", "PUT">>

\* the requests one save() issues
PutAttempts == <<"PUT">>

\* the requests one get_settings() issues
GetAttempts == <<"GET">>

\* the body is kept and the response dropped
SaveKeepsBody(current, response) == current

\* self.settings = <response>: the value self.settings is bound to
SaveAssign(current, response) == response

\* the settings rebuilt from the two fields the client knows
HomeInKnownFields(s, home_article_id) ==
  [k \in {"taxonomy", "homeArticleId"} |->
     IF k = "taxonomy" THEN s[k] ELSE home_article_id]

\* self.settings["homeArticleId"] = home_article_id
HomeAssigned(s, home_article_id) == DictSet(s, "homeArticleId", home_article_id)

HasSettings == DOMAIN settings # {}

\* json serialisation of a settings dict: the list reference is followed
DocValue(s, h) == DictSet(s, "taxonomy", h[s["taxonomy"]])

\* the heap after settings["taxonomy"] is bound to a new list holding
\* taxonomy: a caller that held the old list keeps it, with the value old
Rebound(h, c, old, taxonomy) ==
  IF c = SettingsRef
  THEN [r \in Refs |-> IF r = SettingsRef THEN taxonomy ELSE old]
  ELSE [h EXCEPT ![SettingsRef] = taxonomy]

\* the reference of the caller after settings["taxonomy"] is bound anew
CallerAfterRebind(c) == IF c = SettingsRef THEN CallerOwnRef ELSE c

\* the heap holding one list, that of new settings
Fresh(taxonomy) == [r \in Refs |-> IF r = SettingsRef THEN taxonomy ELSE <<>>]

\* json decoding of a response: its taxonomy becomes a new list object
Decode(doc) == DictSet(doc, "taxonomy", SettingsRef)

Call(op, a, p, res, body, resp, reqs) ==
  [op |-> op, article_id |-> a, parent_article_id |-> p, result |-> res,
   body |-> body, response |-> resp, reqs |-> reqs]

\* the inputs of set_taxonomy: every article as a root, and a repeated id
TaxInputs == { FlatForest(NArticles), <<Leaf(1), Leaf(1)>> }

---------------------------------------------------------------------------
(* State machine *)

\* no value recorded
NoValue == <<>>

\* the sessions of the two-session specification
Sessions == {1, 2}

\* no session has called the wiki yet
SessionsIdle ==
  /\ held = [i \in Sessions |-> NoRef]
  /\ objs = [i \in Sessions |-> NoDoc]
  /\ pc = [i \in Sessions |-> "new"]
  /\ log = [i \in Sessions |-> <<>>]

\* no virtual network builder was constructed
FmIdle ==
  /\ data = NoDoc
  /\ use_default_values = FALSE

\* no webapp handle was constructed and no job was started
DssIdle ==
  /\ webapp = NoDoc
  /\ backend = "none"
  /\ jobState = "none"

\* no virtual network handle was constructed
VnIdle ==
  /\ vn_data = NoDoc
  /\ vn_remote = NoDoc

\* what a call on the one wiki settings object leaves alone
besideWiki == <<returned, sessionVars, fmVars, dssVars, vnVars>>

Init ==
  /\ returned = NoValue
  /\ SessionsIdle
  /\ VnIdle
  /\ FmIdle
  /\ DssIdle
  /\ remote = InitialDoc
  /\ settings = NoDoc
  /\ heap = Fresh(<<>>)
  /\ callerRef = NoRef
  /\ base = NoDoc
  /\ refTrack = "none"
  /\ last = Call("init", NoId, NoId, "ok", NoDoc, NoDoc, <<>>)

\* DSSWiki.get_settings, the GET answered.  The caller replaces the settings
\* object it held and lets go of the list it had from the old one.
GetSettings ==
  /\ UNCHANGED besideWiki
  /\ settings' = Decode(remote)
  /\ heap' = Fresh(remote["taxonomy"])
  /\ callerRef' = NoRef
  /\ base' = remote
  /\ refTrack' = "none"
  /\ last' = Call("get_settings", NoId, NoId, "ok", NoDoc, remote,
                  GetAttempts)
  /\ UNCHANGED remote

\* DSSWiki.get_settings, the transport raising
GetSettingsRejected ==
  /\ UNCHANGED besideWiki
  /\ last' = Call("get_settings", NoId, NoId, "RemoteRejected", NoDoc,
                  NoDoc, GetAttempts)
  /\ UNCHANGED <<remote, settings, heap, callerRef, base, refTrack>>

\* DSSWikiSettings.get_taxonomy: the caller keeps the returned reference
GetTaxonomy ==
  /\ UNCHANGED besideWiki
  /\ HasSettings
  /\ callerRef' = settings["taxonomy"]
  /\ heap' = Fresh(heap[settings["taxonomy"]])
  /\ refTrack' = "held"
  /\ last' = Call("get_taxonomy", NoId, NoId, "ok", NoDoc, NoDoc, <<>>)
  /\ UNCHANGED <<remote, settings, base>>

\* the caller modifies the list it got from get_taxonomy(): taxonomy.pop()
CallerPop ==
  /\ UNCHANGED besideWiki
  /\ callerRef # NoRef
  /\ heap[callerRef] # <<>>
  /\ heap' = [heap EXCEPT ![callerRef] = Pop(@, Len(@))]
  /\ refTrack' = IF refTrack = "moved" THEN "moved" ELSE "edited"
  /\ last' = Call("caller_pop", NoId, NoId, "ok", NoDoc, NoDoc, <<>>)
  /\ UNCHANGED <<remote, settings, callerRef, base>>

\* DSSWikiSettings.move_article_in_taxonomy
Move(article_id, parent_article_id) ==
  /\ UNCHANGED besideWiki
  /\ HasSettings
  /\ \E out \in {MoveOutcome(heap[settings["taxonomy"]], article_id,
                               parent_article_id)} :
       /\ heap' = IF out.rebound
                  THEN Rebound(heap, callerRef, out.inplace, out.taxonomy)
                  ELSE [heap EXCEPT ![settings["taxonomy"]] = out.inplace]
       /\ callerRef' = IF out.rebound THEN CallerAfterRebind(callerRef)
                       ELSE callerRef
       /\ last' = Call("move", article_id, parent_article_id, out.result,
                       NoDoc, NoDoc, <<>>)
  /\ refTrack' = IF refTrack = "edited" THEN "moved" ELSE refTrack
  /\ UNCHANGED <<remote, settings, base>>

\* DSSWikiSettings.set_taxonomy with a list the caller built; the caller
\* lets go of the list it had from get_taxonomy()
SetTaxonomy(taxonomy) ==
  /\ UNCHANGED besideWiki
  /\ HasSettings
  /\ settings' = DictSet(settings, "taxonomy", SettingsRef)
  /\ heap' = Fresh(taxonomy)
  /\ callerRef' = NoRef
  /\ refTrack' = "none"
  /\ last' = Call("set_taxonomy", NoId, NoId, "ok", NoDoc, NoDoc, <<>>)
  /\ UNCHANGED <<remote, base>>

\* DSSWikiSettings.set_home_article_id
SetHomeArticleId(home_article_id) ==
  /\ UNCHANGED besideWiki
  /\ HasSettings
  /\ settings' = HomeAssigned(settings, home_article_id)
  /\ last' = Call("set_home_article_id", home_article_id, NoId, "ok",
                  NoDoc, NoDoc, <<>>)
  /\ UNCHANGED <<remote, heap, callerRef, base, refTrack>>

\* DSSWikiSettings.save, the PUT accepted and answered with response.  The
\* caller lets go of the list it had from the settings sent.
Save ==
  /\ UNCHANGED besideWiki
  /\ HasSettings
  /\ LET body == DocValue(settings, heap) IN
     /\ WellFormed(body["taxonomy"])
     /\ \E response \in PutResponses(body) :
          LET kept == SaveAssign(body, response)
          IN /\ remote' = response
             /\ settings' = Decode(kept)
             /\ heap' = Fresh(kept["taxonomy"])
             /\ base' = response
             /\ last' = Call("save", NoId, NoId, "ok", body, response,
                             PutAttempts)
  /\ callerRef' = NoRef
  /\ refTrack' = "none"

\* DSSWikiSettings.save, the transport raising
SaveRejected ==
  /\ UNCHANGED besideWiki
  /\ HasSettings
  /\ last' = Call("save", NoId, NoId, "RemoteRejected",
                  DocValue(settings, heap), NoDoc, PutAttempts)
  /\ UNCHANGED <<remote, settings, heap, callerRef, base, refTrack>>

Next ==
  \/ GetSettings
  \/ GetSettingsRejected
  \/ GetTaxonomy
  \/ CallerPop
  \/ \E a \in CallIds, p \in CallIds \cup {NoId} : Move(a, p)
  \/ \E t \in TaxInputs : SetTaxonomy(t)
  \/ \E h \in {1} : SetHomeArticleId(h)
  \/ Save
  \/ SaveRejected

Spec == Init /\ [][Next]_vars

\* the calls of the API alone: the caller keeps no reference into the settings
NextApi ==
  \/ GetSettings
  \/ GetSettingsRejected
  \/ \E a \in CallIds, p \in CallIds \cup {NoId} : Move(a, p)
  \/ \E t \in TaxInputs : SetTaxonomy(t)
  \/ \E h \in {1} : SetHomeArticleId(h)
  \/ Save
  \/ SaveRejected

SpecApi == Init /\ [][NextApi]_vars

---------------------------------------------------------------------------
(* move_article_in_taxonomy as a function of the forest: the settings      *)
(* object holds a forest given to set_taxonomy and one move call is made   *)
(* on it.  Every forest within the bounds is an initial one, so each call  *)
(* of a sequence of moves is a step of this specification.                 *)

InitMove ==
  /\ returned = NoValue
  /\ SessionsIdle
  /\ VnIdle
  /\ FmIdle
  /\ DssIdle
  /\ remote = InitialDoc
  /\ base = remote
  /\ \E f \in Forests(MaxNodes, MoveIds) :
       /\ settings = Decode(remote)
       /\ heap = Fresh(f)
  /\ callerRef = NoRef
  /\ refTrack = "none"
  /\ last = Call("set_taxonomy", NoId, NoId, "ok", NoDoc, NoDoc, <<>>)

NextMove ==
  /\ last.op # "move"
  /\ \E a \in MoveIds, p \in MoveIds \cup {NoId} : Move(a, p)

SpecMove == InitMove /\ [][NextMove]_vars

\* the taxonomy the settings object holds
Taxonomy == heap[settings["taxonomy"]]

---------------------------------------------------------------------------
(* Claims about move_article_in_taxonomy, checked under SpecMove.          *)
(* In a step Move(a, p) the unprimed Taxonomy is the forest before the     *)
(* call and Taxonomy' the forest the settings object holds after it.       *)

\* the arguments of the call a step makes, as a one-element set: a step
\* Move(a, p) records a and p in last
MoveArgs == { <<last'.article_id, last'.parent_article_id>> }

Nested(f, i) == \E n \in NodesOf(f) : i \in ChildIds(n.children)

\* C1: a move of a present article under a parent id that occurs nowhere in
\* the forest raises parent-not-found and leaves the taxonomy deep-equal to
\* the forest before the call, whatever the shape of the forest.
C1_AbsentParentRollsBack ==
  [][\A m \in MoveArgs :
       ( /\ Move(m[1], m[2])
         /\ m[1] \in IdsOf(Taxonomy)
         /\ m[2] # NoId
         /\ m[2] \notin IdsOf(Taxonomy) )
       => /\ last'.result = "ParentNotFound"
          /\ Taxonomy' = Taxonomy]_vars

\* a nested article was moved under an absent parent and the call failed
C1_Witness ==
  /\ last.op = "move"
  /\ last.result = "ParentNotFound"
  /\ last.article_id \in IdsOf(Taxonomy)
  /\ last.parent_article_id \notin IdsOf(Taxonomy)
  /\ Nested(Taxonomy, last.article_id)

\* C2: with unique ids, a move of a node under itself or under one of its
\* descendants raises parent-not-found and leaves the taxonomy as it was;
\* after a successful move the moved id does not occur below itself.
C2_NoMoveUnderOwnSubtree ==
  [][\A m \in MoveArgs :
       ( /\ Move(m[1], m[2])
         /\ UniqueIds(Taxonomy)
         /\ m[1] \in IdsOf(Taxonomy) )
       => /\ m[2] \in SubtreeIds(Taxonomy, m[1])
             => /\ last'.result = "ParentNotFound"
                /\ Taxonomy' = Taxonomy
          /\ last'.result = "ok"
             => /\ m[2] \notin SubtreeIds(Taxonomy, m[1])
                /\ m[1] \notin IdsOf(SubtreeOf(Taxonomy', m[1]).children)]_vars

\* a node with a child was moved under that child and the call failed
C2_Witness ==
  /\ last.op = "move"
  /\ last.result = "ParentNotFound"
  /\ UniqueIds(Taxonomy)
  /\ last.article_id \in IdsOf(Taxonomy)
  /\ last.parent_article_id # last.article_id
  /\ last.parent_article_id \in SubtreeIds(Taxonomy, last.article_id)

\* C3: a move of an article id that occurs nowhere in the forest raises
\* article-not-found for every parent argument (omitted, present, absent)
\* and the taxonomy is identical: nothing removed, added or reordered.
C3_AbsentArticleChangesNothing ==
  [][\A m \in MoveArgs :
       ( /\ Move(m[1], m[2])
         /\ m[1] \notin IdsOf(Taxonomy) )
       => /\ last'.result = "ArticleNotFound"
          /\ Taxonomy' = Taxonomy
          /\ heap' = heap]_vars

\* an absent article was moved under a present parent of a nested forest
C3_Witness ==
  /\ last.op = "move"
  /\ last.result = "ArticleNotFound"
  /\ last.article_id \notin IdsOf(Taxonomy)
  /\ last.parent_article_id \in IdsOf(Taxonomy)
  /\ Nested(Taxonomy, last.parent_article_id)

\* what C4 and its amended form share: the move succeeds, the node is the
\* last child of p and its subtree is the one it had
MovedUnder(a, p) ==
  /\ last'.result = "ok"
  /\ LET kids == SubtreeOf(Taxonomy', p).children IN
       /\ kids # <<>>
       /\ kids[Len(kids)] = SubtreeOf(Taxonomy, a)

\* the node a is no longer among the children of the parent it had (or
\* among the roots, when it was a root)
LeftFormerParent(a) ==
  a \notin ChildIds(SiblingsUnder(Taxonomy', ParentOf(Taxonomy, a)))

C4_Case(a, p) ==
  /\ Move(a, p)
  /\ UniqueIds(Taxonomy)
  /\ a \in IdsOf(Taxonomy)
  /\ p \in IdsOf(Taxonomy) \ SubtreeIds(Taxonomy, a)

\* C4 as stated: with unique ids, a move under a present parent outside the
\* subtree of the node succeeds, the node becomes the last child of p with
\* its subtree unchanged, and it is no longer a child of its former parent.
C4_AsStated ==
  [][\A m \in MoveArgs :
       C4_Case(m[1], m[2])
       => MovedUnder(m[1], m[2]) /\ LeftFormerParent(m[1])]_vars

\* C4 amended: the node leaves the children of its former parent unless p
\* is that former parent, in which case it moves to the end of the same
\* children sequence.
C4_MovedUnderParent ==
  [][\A m \in MoveArgs :
       C4_Case(m[1], m[2])
       => /\ MovedUnder(m[1], m[2])
          /\ ParentOf(Taxonomy, m[1]) # m[2] => LeftFormerParent(m[1])
          /\ ParentOf(Taxonomy, m[1]) = m[2]
             => ParentOf(Taxonomy', m[1]) = m[2]]_vars

\* the moved node now is the last of several children of the parent it was
\* moved under
C4_Witness ==
  /\ last.op = "move"
  /\ last.result = "ok"
  /\ UniqueIds(Taxonomy)
  /\ last.parent_article_id # NoId
  /\ LET kids == SubtreeOf(Taxonomy, last.parent_article_id).children IN
       /\ Len(kids) > 1
       /\ kids[Len(kids)].id = last.article_id

\* C5: with unique ids, a move of a present node with the parent omitted
\* succeeds and the node is the last root, its subtree as before the call.
C5_MoveToRoot ==
  [][\A a \in {last'.article_id} :
       ( /\ Move(a, NoId)
         /\ UniqueIds(Taxonomy)
         /\ a \in IdsOf(Taxonomy) )
       => /\ last'.result = "ok"
          /\ Taxonomy' # <<>>
          /\ Taxonomy'[Len(Taxonomy')] = SubtreeOf(Taxonomy, a)]_vars

\* a node with a child was moved to the root level, behind another root
C5_Witness ==
  /\ last.op = "move"
  /\ last.result = "ok"
  /\ last.parent_article_id = NoId
  /\ UniqueIds(Taxonomy)
  /\ Len(Taxonomy) > 1
  /\ Taxonomy[Len(Taxonomy)].id = last.article_id
  /\ Taxonomy[Len(Taxonomy)].children # <<>>

\* C6: from a forest with unique ids, every move call, successful or
\* failed, leaves a forest with the same ids, each exactly once, and the
\* same number of nodes; so it is after any sequence of moves.
C6_IdsPreserved ==
  [][UniqueIds(Taxonomy)
     => /\ UniqueIds(Taxonomy')
        /\ IdsOf(Taxonomy') = IdsOf(Taxonomy)
        /\ NodeCount(Taxonomy') = NodeCount(Taxonomy)]_vars

\* a successful move has produced a nested forest of distinct ids
C6_Witness ==
  /\ last.op = "move"
  /\ last.result = "ok"
  /\ UniqueIds(Taxonomy)
  /\ NodeCount(Taxonomy) > 2
  /\ Nested(Taxonomy, last.article_id)

---------------------------------------------------------------------------
(* Claims about the settings object, its references and save *)

OpaqueKeys(doc) == DOMAIN doc \ {"taxonomy", "homeArticleId"}

\* C7: a reference obtained from get_taxonomy() stays the live taxonomy
\* through any moves made after it: when the caller then modifies the list
\* through the reference, the body of the next save() holds the list as the
\* caller left it.
C7_ReferenceStaysLive ==
  [][((Save \/ SaveRejected) /\ refTrack = "edited")
     => last'.body["taxonomy"] = heap[callerRef]]_vars

\* C8: every field of the body sent by save other than taxonomy and
\* homeArticleId has the value it had in the document last received, no
\* field is added or dropped, and a save that directly follows the fetch
\* sends the fetched document in full.
C8_OpaqueFieldsRoundTrip ==
  [][(Save \/ SaveRejected)
     => /\ DOMAIN last'.body = DOMAIN base
        /\ \A k \in OpaqueKeys(base) : last'.body[k] = base[k]
        /\ (last.op = "get_settings" /\ last.result = "ok")
           => last'.body = base]_vars

\* a save has sent a body with a moved taxonomy, a new home article and the
\* opaque field of the fetched document
C8_Witness ==
  /\ last.op = "save"
  /\ last.result = "ok"
  /\ OpaqueKeys(last.body) # {}
  /\ last.body["homeArticleId"] # InitialDoc["homeArticleId"]
  /\ last.body["taxonomy"] # InitialDoc["taxonomy"]
  /\ Nested(last.body["taxonomy"], NArticles)

\* C9: after a successful save the settings in memory are the document the
\* server returned for the PUT, also when it differs from the body sent.
C9_SettingsAreResponse ==
  (last.op = "save" /\ last.result = "ok")
  => DocValue(settings, heap) = last.response

\* the server answered a save with a taxonomy in another order than sent
C9_Witness ==
  /\ last.op = "save"
  /\ last.result = "ok"
  /\ last.response["taxonomy"] # last.body["taxonomy"]
  /\ Taxonomy = last.response["taxonomy"]

\* C10: a transport failure of get_settings or save is the result of that
\* call, one request was issued for it, and after a failed save the
\* settings in memory, mutations included, are those sent.
C10_FailureSurfacesOnce ==
  last.result = "RemoteRejected"
  => /\ last.op \in {"get_settings", "save"}
     /\ Len(last.reqs) = 1
     /\ last.op = "save" => DocValue(settings, heap) = last.body

\* a save of settings that differ from the fetched document has failed
C10_Witness ==
  /\ last.op = "save"
  /\ last.result = "RemoteRejected"
  /\ last.body["taxonomy"] # base["taxonomy"]
  /\ last.body["homeArticleId"] # base["homeArticleId"]

---------------------------------------------------------------------------
(* Claims about the ids of the taxonomy a settings object holds *)

\* C12: the uniqueness of ids is verified locally: after any sequence of
\* fetch, set_taxonomy, move_article_in_taxonomy and save no id appears twice
\* in the taxonomy in memory, and no body sent by save holds an id twice.
C12_IdsVerifiedLocally ==
  /\ HasSettings => UniqueIds(Taxonomy)
  /\ last.op = "save" => UniqueIds(last.body["taxonomy"])

---------------------------------------------------------------------------
(* The tree functions of the wiki: __retrieve_article_in_taxonomy__ called *)
(* on the taxonomy of a settings object just fetched, and list_articles.   *)
(* The server holds any forest within the bounds and one call is made.     *)

\* DSSWiki.get_article: the handle of an article
GetArticle(article_id) == [project_key |-> "P", article_id |-> article_id]

RECURSIVE FlattenChildrenFirst(_)
\* a traversal that lists the children of a node before the node
FlattenChildrenFirst(taxonomy) ==
  IF taxonomy = <<>> THEN <<>>
  ELSE FlattenChildrenFirst(Head(taxonomy).children)
         \o <<GetArticle(Head(taxonomy).id)>>
         \o FlattenChildrenFirst(Tail(taxonomy))

RECURSIVE Flatten(_)
\* DSSWiki.__flatten_taxonomy__: the loop over taxonomy, from its head on
Flatten(taxonomy) ==
  IF taxonomy = <<>> THEN <<>>
  ELSE LET article == Head(taxonomy) IN
       <<GetArticle(article.id)>> \o Flatten(article.children)
         \o Flatten(Tail(taxonomy))

InitTree ==
  /\ \E f \in Forests(MaxNodes, MoveIds) :
       /\ remote = MakeDoc(f, NoId, Opaque)
       /\ heap = Fresh(f)
  /\ settings = Decode(remote)
  /\ base = remote
  /\ callerRef = NoRef
  /\ refTrack = "none"
  /\ last = Call("get_settings", NoId, NoId, "ok", NoDoc, remote, GetAttempts)
  /\ returned = NoValue
  /\ SessionsIdle
  /\ VnIdle
  /\ FmIdle
  /\ DssIdle

\* DSSWikiSettings.__retrieve_article_in_taxonomy__ on settings["taxonomy"]
RetrieveCall(article_id, remove) ==
  /\ HasSettings
  /\ \E r \in {Retrieve(heap[settings["taxonomy"]], article_id, remove)} :
       /\ heap' = [heap EXCEPT ![settings["taxonomy"]] = r.taxonomy]
       /\ returned' = r.ret
  /\ last' = Call(IF remove THEN "retrieve_remove" ELSE "retrieve",
                  article_id, NoId, "ok", NoDoc, NoDoc, <<>>)
  /\ UNCHANGED <<remote, settings, callerRef, base, refTrack>>
  /\ UNCHANGED <<sessionVars, fmVars, dssVars, vnVars>>

\* DSSWiki.list_articles, the GET answered: a settings object is fetched
\* for the call and dropped after it
ListArticles ==
  /\ returned' = Flatten(remote["taxonomy"])
  /\ last' = Call("list_articles", NoId, NoId, "ok", NoDoc, remote,
                  GetAttempts)
  /\ UNCHANGED <<wikiVars, sessionVars, fmVars, dssVars, vnVars>>

\* DSSWiki.list_articles, the transport raising
ListArticlesRejected ==
  /\ returned' = NoValue
  /\ last' = Call("list_articles", NoId, NoId, "RemoteRejected", NoDoc,
                  NoDoc, GetAttempts)
  /\ UNCHANGED <<wikiVars, sessionVars, fmVars, dssVars, vnVars>>

NextTree ==
  /\ last.op = "get_settings"
  /\ \/ \E a \in MoveIds, remove \in BOOLEAN : RetrieveCall(a, remove)
     \/ ListArticles
     \/ ListArticlesRejected

SpecTree == InitTree /\ [][NextTree]_vars

---------------------------------------------------------------------------
(* Claims about the tree functions, checked under SpecTree *)

\* C13: for a forest with unique ids and an id present in it, the lookup
\* with remove=False returns the node with that id and leaves the forest
\* with the same node count, the same nesting and the same sibling order.
C13_LookupLeavesForest ==
  [][\A a \in {last'.article_id} :
       ( /\ RetrieveCall(a, FALSE)
         /\ UniqueIds(Taxonomy)
         /\ a \in IdsOf(Taxonomy) )
       => /\ returned' = <<SubtreeOf(Taxonomy, a)>>
          /\ returned'[1].id = a
          /\ NodeCount(Taxonomy') = NodeCount(Taxonomy)
          /\ Taxonomy' = Taxonomy]_vars

\* a node that has a child and lies below another node was looked up
C13_Witness ==
  /\ last.op = "retrieve"
  /\ UniqueIds(Taxonomy)
  /\ returned # NoValue
  /\ returned[1].children # <<>>
  /\ Nested(Taxonomy, last.article_id)

\* C14: for a forest with unique ids and an id present in it, the lookup
\* with remove=True returns the node with its whole subtree; afterwards the
\* id and the ids of its former descendants are nowhere in the forest, every
\* other node is still there, and the node count has dropped by 1 plus the
\* number of descendants of the removed node.
C14_RemovalDetachesSubtree ==
  [][\A a \in {last'.article_id} :
       ( /\ RetrieveCall(a, TRUE)
         /\ UniqueIds(Taxonomy)
         /\ a \in IdsOf(Taxonomy) )
       => /\ returned' = <<SubtreeOf(Taxonomy, a)>>
          /\ IdsOf(Taxonomy') \cap SubtreeIds(Taxonomy, a) = {}
          /\ IdsOf(Taxonomy') = IdsOf(Taxonomy) \ SubtreeIds(Taxonomy, a)
          /\ UniqueIds(Taxonomy')
          /\ NodeCount(Taxonomy') =
               NodeCount(Taxonomy)
                 - (1 + NodeCount(SubtreeOf(Taxonomy, a).children))]_vars

\* a nested node was removed together with its child, a root is left
C14_Witness ==
  /\ last.op = "retrieve_remove"
  /\ returned # NoValue
  /\ returned[1].children # <<>>
  /\ returned[1].id \notin IdsOf(Taxonomy)
  /\ NodeCount(Taxonomy) = 1
  /\ NodeCount(remote["taxonomy"]) = 3
  /\ remote["taxonomy"][1].id = Taxonomy[1].id

RECURSIVE PathsOf(_)
\* the nodes of a forest by position: the index path from a root to the node
PathsOf(f) ==
  UNION { { <<k>> \o q : q \in {<<>>} \cup PathsOf(f[k].children) } :
          k \in 1..Len(f) }

RECURSIVE NodeAt(_, _)
NodeAt(f, q) ==
  IF Len(q) = 1 THEN f[q[1]] ELSE NodeAt(f[q[1]].children, Tail(q))

RECURSIVE PathBefore(_, _)
\* pre-order on positions: a node before its children, siblings left to right
PathBefore(p, q) ==
  IF p = <<>> THEN q # <<>>
  ELSE IF q = <<>> THEN FALSE
  ELSE \/ Head(p) < Head(q)
       \/ Head(p) = Head(q) /\ PathBefore(Tail(p), Tail(q))

\* the place of the node at q in the pre-order of f, counted from 1
Rank(f, q) == 1 + Cardinality({ p \in PathsOf(f) : PathBefore(p, q) })

\* C15: for every taxonomy the server returns, list_articles returns one
\* article handle per node, each node once, in pre-order (roots left to
\* right, a node before its children, children left to right); the length of
\* the result is the node count of the forest.
C15_ListArticlesPreOrder ==
  (last.op = "list_articles" /\ last.result = "ok")
  => LET f == last.response["taxonomy"] IN
     /\ last.response = remote
     /\ Len(returned) = NodeCount(f)
     /\ Len(returned) = Cardinality(PathsOf(f))
     /\ \A q \in PathsOf(f) :
          returned[Rank(f, q)] = GetArticle(NodeAt(f, q).id)

\* the articles of a forest with a nested first root and a second root were
\* listed
C15_Witness ==
  /\ last.op = "list_articles"
  /\ last.result = "ok"
  /\ Len(returned) = 3
  /\ Len(remote["taxonomy"]) = 2
  /\ remote["taxonomy"][1].children # <<>>
  /\ UniqueIds(remote["taxonomy"])

---------------------------------------------------------------------------
(* Two sessions on one wiki.  Each session calls get_settings() once,      *)
(* makes at most one call that changes the settings object it got, saves   *)
(* and lists the articles; the steps of the two sessions interleave.  The  *)
(* server answers every request and rejects only a taxonomy that is not    *)
(* well formed.                                                            *)

\* one settings object for every get_settings() call
SharedSettings(i) == 1

\* DSSWikiSettings(...): the object a get_settings() call of session i
\* constructs, named after the session
NewSettings(i) == i

\* self.settings of the settings object session i holds
SettingsOf(i) == objs[held[i]]

\* the number of PUTs the server has accepted
Accepted(l) ==
  Cardinality({ e \in UNION { { <<i, k>> : k \in 1..Len(l[i]) } : i \in Sessions } :
                  /\ l[e[1]][e[2]].call.op = "save"
                  /\ l[e[1]][e[2]].call.result = "ok" })

\* the log with a call of session i added: at is the number of PUTs the
\* server had accepted when the call was made
Logged(l, i, call, value) ==
  [l EXCEPT ![i] = Append(@, [call |-> call, at |-> Accepted(l),
                              value |-> value])]

\* what a call of a session leaves alone
besideSessions == <<settings, heap, callerRef, base, refTrack, last, returned,
                    fmVars, dssVars, vnVars>>

InitSessions ==
  /\ remote = InitialDoc
  /\ settings = NoDoc
  /\ heap = Fresh(<<>>)
  /\ callerRef = NoRef
  /\ base = NoDoc
  /\ refTrack = "none"
  /\ last = Call("init", NoId, NoId, "ok", NoDoc, NoDoc, <<>>)
  /\ returned = NoValue
  /\ SessionsIdle
  /\ VnIdle
  /\ FmIdle
  /\ DssIdle

\* DSSWiki.get_settings by session i
Fetch(i) ==
  /\ pc[i] = "new"
  /\ held' = [held EXCEPT ![i] = NewSettings(i)]
  /\ objs' = [objs EXCEPT ![NewSettings(i)] = remote]
  /\ pc' = [pc EXCEPT ![i] = "fetched"]
  /\ log' = Logged(log, i, Call("get_settings", NoId, NoId, "ok", NoDoc,
                                remote, GetAttempts), NoValue)
  /\ UNCHANGED remote
  /\ UNCHANGED besideSessions

\* DSSWikiSettings.move_article_in_taxonomy by session i
MoveBy(i, article_id, parent_article_id) ==
  /\ pc[i] = "fetched"
  /\ \E out \in {MoveOutcome(SettingsOf(i)["taxonomy"], article_id,
                               parent_article_id)} :
       /\ objs' = [objs EXCEPT ![held[i]] = DictSet(@, "taxonomy", out.taxonomy)]
       /\ log' = Logged(log, i, Call("move", article_id, parent_article_id,
                                     out.result, NoDoc, NoDoc, <<>>), NoValue)
  /\ pc' = [pc EXCEPT ![i] = "mutated"]
  /\ UNCHANGED <<remote, held>>
  /\ UNCHANGED besideSessions

\* DSSWikiSettings.set_taxonomy by session i
SetTaxonomyBy(i, taxonomy) ==
  /\ pc[i] = "fetched"
  /\ objs' = [objs EXCEPT ![held[i]] = DictSet(@, "taxonomy", taxonomy)]
  /\ log' = Logged(log, i, Call("set_taxonomy", NoId, NoId, "ok", NoDoc,
                                NoDoc, <<>>), NoValue)
  /\ pc' = [pc EXCEPT ![i] = "mutated"]
  /\ UNCHANGED <<remote, held>>
  /\ UNCHANGED besideSessions

\* DSSWikiSettings.set_home_article_id by session i
SetHomeArticleIdBy(i, home_article_id) ==
  /\ pc[i] = "fetched"
  /\ objs' = [objs EXCEPT ![held[i]] = HomeAssigned(@, home_article_id)]
  /\ log' = Logged(log, i, Call("set_home_article_id", home_article_id, NoId,
                                "ok", NoDoc, NoDoc, <<>>), NoValue)
  /\ pc' = [pc EXCEPT ![i] = "mutated"]
  /\ UNCHANGED <<remote, held>>
  /\ UNCHANGED besideSessions

\* a save that sends the document as it was fetched
SaveByStale(i) ==
  /\ pc[i] \in {"fetched", "mutated"}
  /\ LET body == log[i][1].call.response IN
     /\ WellFormed(body["taxonomy"])
     /\ \E response \in PutResponses(body) :
          /\ remote' = response
          /\ objs' = [objs EXCEPT ![held[i]] = SaveAssign(body, response)]
          /\ log' = Logged(log, i, Call("save", NoId, NoId, "ok", body,
                                        response, PutAttempts), NoValue)
  /\ pc' = [pc EXCEPT ![i] = "saved"]
  /\ UNCHANGED held
  /\ UNCHANGED besideSessions

\* DSSWikiSettings.save by session i, the PUT accepted
SaveBy(i) ==
  /\ pc[i] \in {"fetched", "mutated"}
  /\ LET body == SettingsOf(i) IN
     /\ WellFormed(body["taxonomy"])
     /\ \E response \in PutResponses(body) :
          /\ remote' = response
          /\ objs' = [objs EXCEPT ![held[i]] = SaveAssign(body, response)]
          /\ log' = Logged(log, i, Call("save", NoId, NoId, "ok", body,
                                        response, PutAttempts), NoValue)
  /\ pc' = [pc EXCEPT ![i] = "saved"]
  /\ UNCHANGED held
  /\ UNCHANGED besideSessions

\* DSSWikiSettings.save by session i, the server rejecting the taxonomy
SaveRejectedBy(i) ==
  /\ pc[i] \in {"fetched", "mutated"}
  /\ ~WellFormed(SettingsOf(i)["taxonomy"])
  /\ log' = Logged(log, i, Call("save", NoId, NoId, "RemoteRejected",
                                SettingsOf(i), NoDoc, PutAttempts), NoValue)
  /\ pc' = [pc EXCEPT ![i] = "rejected"]
  /\ UNCHANGED <<remote, held, objs>>
  /\ UNCHANGED besideSessions

\* DSSWiki.list_articles by session i
ListArticlesBy(i) ==
  /\ pc[i] = "saved"
  /\ log' = Logged(log, i, Call("list_articles", NoId, NoId, "ok", NoDoc,
                                remote, GetAttempts),
                   Flatten(remote["taxonomy"]))
  /\ pc' = [pc EXCEPT ![i] = "listed"]
  /\ UNCHANGED <<remote, held, objs>>
  /\ UNCHANGED besideSessions

NextSessions ==
  \E i \in Sessions :
    \/ Fetch(i)
    \/ \E a \in CallIds, p \in CallIds \cup {NoId} : MoveBy(i, a, p)
    \/ \E t \in TaxInputs : SetTaxonomyBy(i, t)
    \/ \E h \in {1} : SetHomeArticleIdBy(i, h)
    \/ SaveBy(i)
    \/ SaveRejectedBy(i)
    \/ ListArticlesBy(i)

SpecSessions == InitSessions /\ [][NextSessions]_vars

---------------------------------------------------------------------------
(* Claims about two sessions, checked under SpecSessions *)

\* the places in the log of session i of its calls of op (one at most)
Entries(i, op) == { k \in 1..Len(log[i]) : log[i][k].call.op = op }

EntryOf(i, op) == log[i][CHOOSE k \in Entries(i, op) : TRUE]

\* session i has made the call op and it succeeded
Done(i, op) ==
  /\ Entries(i, op) # {}
  /\ EntryOf(i, op).call.result = "ok"

\* the document session i fetched
FetchedBy(i) == EntryOf(i, "get_settings").call.response

\* the taxonomy session i fetched with the move of session i applied to it
OwnMove(i) ==
  MoveOutcome(FetchedBy(i)["taxonomy"], EntryOf(i, "move").call.article_id,
              EntryOf(i, "move").call.parent_article_id).taxonomy

\* both sessions fetched the document before any save, each made a
\* successful move, the two moves differ in what they give, first has saved
\* and later has called save after it
LostUpdateCase(first, later) ==
  /\ Done(first, "get_settings") /\ EntryOf(first, "get_settings").at = 0
  /\ Done(later, "get_settings") /\ EntryOf(later, "get_settings").at = 0
  /\ Done(first, "move")
  /\ Done(later, "move")
  /\ OwnMove(first) # OwnMove(later)
  /\ Done(first, "save") /\ EntryOf(first, "save").at = 0
  /\ Entries(later, "save") # {}

\* C11: two sessions fetch the same document, each makes a different
\* successful move and each saves, both fetches before both saves, in any
\* interleaving: the later save is accepted, the document on the server is
\* the one the later save sent (as the server stored it), which is the
\* fetched document with the later session's own move only and not the
\* other session's, and no call of either session reported an error.
C11_LastWriterWins ==
  \A first \in Sessions : \A later \in Sessions \ {first} :
    LostUpdateCase(first, later)
    => LET sent == EntryOf(later, "save").call IN
       /\ sent.result = "ok"
       /\ EntryOf(later, "save").at = 1
       /\ sent.body = DictSet(FetchedBy(later), "taxonomy", OwnMove(later))
       /\ sent.body["taxonomy"] # OwnMove(first)
       /\ remote = sent.response
       /\ remote \in PutResponses(sent.body)
       /\ \A i \in Sessions : \A k \in 1..Len(log[i]) :
            log[i][k].call.result = "ok"

\* session 2 nested an article and saved, then session 1, which had fetched
\* before, saved its own reordering: the nesting is gone from the server
C11_Witness ==
  /\ LostUpdateCase(2, 1)
  /\ Nested(OwnMove(2), NArticles)
  /\ ~Nested(remote["taxonomy"], NArticles)
  /\ remote["taxonomy"] # InitialDoc["taxonomy"]
  /\ pc[1] = "saved"

\* the last call session i has made
LastOf(l, i) == l[i][Len(l[i])]

\* C16: two settings objects from two get_settings() calls share no state:
\* a move_article_in_taxonomy, set_taxonomy or set_home_article_id call on
\* one leaves the object the other session holds and every field of it as
\* they were; and the wiki handle keeps no taxonomy between calls: every
\* get_settings and list_articles issues its own GET and works on the
\* document the server holds at that moment.
C16_SessionsShareNothing ==
  [][\A i \in Sessions :
       /\ (pc[i] = "fetched" /\ pc'[i] = "mutated")
          => \A j \in Sessions \ {i} :
               /\ held'[j] = held[j]
               /\ held[j] # NoRef
                  => /\ held[j] # held[i]
                     /\ objs'[held'[j]] = objs[held[j]]
       /\ (pc[i] = "new" /\ pc'[i] = "fetched")
          => /\ LastOf(log', i).call.reqs = <<"GET">>
             /\ LastOf(log', i).call.response = remote
             /\ objs'[held'[i]] = remote
       /\ (pc[i] = "saved" /\ pc'[i] = "listed")
          => /\ LastOf(log', i).call.reqs = <<"GET">>
             /\ LastOf(log', i).call.response = remote
             /\ [k \in 1..Len(LastOf(log', i).value) |->
                   LastOf(log', i).value[k].article_id]
                = PreOrderIds(remote["taxonomy"])]_vars

\* session 2 has changed the settings it fetched while session 1 holds the
\* settings it fetched, which are still the document of the server
C16_Witness ==
  /\ pc[1] = "fetched"
  /\ pc[2] = "mutated"
  /\ held[1] # NoRef
  /\ held[2] # NoRef
  /\ objs[held[2]]["taxonomy"] # objs[held[1]]["taxonomy"]
  /\ objs[held[2]]["homeArticleId"] = objs[held[1]]["homeArticleId"]
  /\ objs[held[1]] = remote

---------------------------------------------------------------------------
(* dss/webapp.py and DSSDataset.build of dss/dataset.py: one webapp handle *)
(* and one dataset handle of a project, and the calls made on them.        *)

\* a call on a handle, its arguments and its outcome
Request(op, args, result, body, response, reqs) ==
  [op |-> op, args |-> args, result |-> result, body |-> body,
   response |-> response, reqs |-> reqs]

\* the ids of the webapps of the project
WebAppIds == {"w1", "w2", "w3"}

\* DSSWebApp.__init__: the attributes of the handle
DSSWebApp(client, project_key, webapp_id) ==
  [a \in {"client", "project_key", "webapp_id"} |->
     CASE a = "client" -> client
       [] a = "project_key" -> project_key
       [] a = "webapp_id" -> webapp_id]

\* DSSWebAppStatus.__init__: the attributes of the status handle
DSSWebAppStatus(client, project_key, webapp_id, status) ==
  [client |-> client, project_key |-> project_key, webapp_id |-> webapp_id,
   status |-> status]

\* DSSWebAppStatus.get_raw
GetRaw(self) == self.status

\* the backend state document the server returns
BackendState(b) == [futureInfo |-> [alive |-> (b = "running")]]

\* what the server answers to a stop or restart: a future, or nothing when
\* there is nothing to wait for
ActionResponse(b, action) ==
  IF action = "stop" /\ b = "stopped" THEN NoDoc ELSE [jobId |-> action]

\* DSSFuture.from_resp: a future handle, None for an empty response
FromResp(resp) == IF resp = NoDoc THEN NoValue ELSE <<[job_id |-> resp.jobId]>>

\* the attribute name of self read for the third argument of DSSWebAppStatus
StatusIdAttribute == "code_studio_id"

\* the rest of get_status once the GET has returned status: the attributes
\* of self are read and the status handle is constructed
StatusHandle(self, status) ==
  IF StatusIdAttribute \in DOMAIN self
  THEN [result |-> "ok",
        value |-> <<DSSWebAppStatus(self["client"], self["project_key"],
                                    self[StatusIdAttribute], status)>>]
  ELSE [result |-> "AttributeError", value |-> NoValue]

\* start_and_wait of the job definition: no_fail when the caller gives none
DefaultNoFail == FALSE

\* start_and_wait(no_fail) for a job that ends in outcome
StartAndWait(outcome, no_fail) ==
  IF outcome = "FAILED" /\ ~no_fail THEN "JobFailed" ELSE "ok"

\* the job types build documents
JobTypes ==
  {"RECURSIVE_BUILD", "NON_RECURSIVE_FORCED_BUILD", "RECURSIVE_FORCED_BUILD"}

\* the job handle build returns
JobHandle(job_type) == <<[job_type |-> job_type]>>

\* what a call on the webapp or the dataset leaves alone
besideDss == <<wikiVars, sessionVars, fmVars, vnVars>>

InitDss ==
  /\ remote = InitialDoc
  /\ settings = NoDoc
  /\ heap = Fresh(<<>>)
  /\ callerRef = NoRef
  /\ base = NoDoc
  /\ refTrack = "none"
  /\ SessionsIdle
  /\ VnIdle
  /\ FmIdle
  /\ \E w \in WebAppIds : webapp = DSSWebApp("client", "P", w)
  /\ backend \in {"running", "stopped"}
  /\ jobState = "none"
  /\ last = Request("init", <<>>, "ok", NoDoc, NoDoc, <<>>)
  /\ returned = NoValue

\* DSSWebApp.stop
Stop ==
  /\ backend' = "stopped"
  /\ returned' = FromResp(ActionResponse(backend, "stop"))
  /\ last' = Request("stop", <<>>, "ok", NoDoc,
                     ActionResponse(backend, "stop"), <<"PUT">>)
  /\ UNCHANGED <<webapp, jobState>>
  /\ UNCHANGED besideDss

\* DSSWebApp.restart
Restart ==
  /\ backend' = "running"
  /\ returned' = FromResp(ActionResponse(backend, "restart"))
  /\ last' = Request("restart", <<>>, "ok", NoDoc,
                     ActionResponse(backend, "restart"), <<"PUT">>)
  /\ UNCHANGED <<webapp, jobState>>
  /\ UNCHANGED besideDss

\* DSSWebApp.get_status, the GET answered
GetStatus ==
  /\ \E out \in {StatusHandle(webapp, BackendState(backend))} :
       /\ returned' = out.value
       /\ last' = Request("get_status", <<>>, out.result, NoDoc,
                          BackendState(backend), <<"GET">>)
  /\ UNCHANGED <<webapp, backend, jobState>>
  /\ UNCHANGED besideDss

\* DSSWebApp.get_status, the transport raising
GetStatusRejected ==
  /\ returned' = NoValue
  /\ last' = Request("get_status", <<>>, "RemoteRejected", NoDoc, NoDoc,
                     <<"GET">>)
  /\ UNCHANGED <<webapp, backend, jobState>>
  /\ UNCHANGED besideDss

\* DSSDataset.build: the job is defined and started; with wait the call
\* returns when the job has ended, in outcome
Build(job_type, wait, no_fail) ==
  /\ \/ /\ wait
        /\ \E outcome \in {"DONE", "FAILED"} :
             /\ jobState' = outcome
             /\ \E res \in {StartAndWait(outcome, DefaultNoFail)} :
                  /\ returned' = IF res = "ok" THEN JobHandle(job_type)
                                  ELSE NoValue
                  /\ last' = Request("build",
                                     [job_type |-> job_type, wait |-> wait,
                                      no_fail |-> no_fail],
                                     res, NoDoc, NoDoc, <<"POST">>)
     \/ /\ ~wait
        /\ jobState' = "RUNNING"
        /\ returned' = JobHandle(job_type)
        /\ last' = Request("build",
                           [job_type |-> job_type, wait |-> wait,
                            no_fail |-> no_fail],
                           "ok", NoDoc, NoDoc, <<"POST">>)
  /\ UNCHANGED <<webapp, backend>>
  /\ UNCHANGED besideDss

NextDss ==
  \/ Stop
  \/ Restart
  \/ GetStatus
  \/ GetStatusRejected
  \/ \E job_type \in JobTypes, wait \in BOOLEAN, no_fail \in BOOLEAN :
       Build(job_type, wait, no_fail)

SpecDss == InitDss /\ [][NextDss]_vars

---------------------------------------------------------------------------
(* Claims about the webapp and dataset handles, checked under SpecDss *)

\* C17: get_status issues one GET for the backend state and, the GET
\* answered, returns a status handle whose webapp_id is the id of the webapp
\* and whose get_raw() is the document the GET returned.
C17_StatusOfThisWebApp ==
  (last.op = "get_status" /\ last.reqs = <<"GET">> /\ last.response # NoDoc)
  => /\ last.result = "ok"
     /\ returned # NoValue
     /\ returned[1].webapp_id = webapp["webapp_id"]
     /\ GetRaw(returned[1]) = last.response

\* C18: for a job that ends in failure, build with wait=True raises when
\* no_fail is False and does not raise when no_fail is True.
C18_NoFailDecides ==
  (last.op = "build" /\ last.args.wait /\ jobState = "FAILED")
  => /\ last.args.no_fail => last.result = "ok" /\ returned # NoValue
     /\ ~last.args.no_fail => last.result = "JobFailed"

---------------------------------------------------------------------------
(* fm/virtualnetworks.py: one FMAWSVirtualNetworkCreator and the calls     *)
(* made on it.                                                             *)

\* a list of accepted modes that takes the lower-case spelling too
AccessModesLax == {"YES", "NO", "EGRESS_ONLY", "yes"}

\* the values with_internet_access_mode tests its argument against
AccessModes == {"YES", "NO", "EGRESS_ONLY"}

\* the arguments callers pass to with_internet_access_mode
ModeInputs == {"YES", "NO", "EGRESS_ONLY", "yes", "ALWAYS", ""}

\* the builder object, which its with_ methods return
Self == "builder"

\* n security group ids, as the tuple of the arguments
Groups(n) == [k \in 1..n |-> k]

\* FMVirtualNetworkCreator.__init__: self.data
NewBuilderData(label) ==
  DictSet(DictSet(NoDoc, "label", label), "mode", "EXISTING_MONOTENANT")

\* the virtual network the server returns for a POST of body
CreatedNetwork(body) == DictSet(body, "id", "vn-1")

\* FMAWSVirtualNetwork(client, vn)
FMAWSVirtualNetwork(client, vn) == [client |-> client, vn_data |-> vn]

\* what a call on the builder leaves alone
besideFm == <<wikiVars, sessionVars, dssVars, vnVars>>

InitFm ==
  /\ remote = InitialDoc
  /\ settings = NoDoc
  /\ heap = Fresh(<<>>)
  /\ callerRef = NoRef
  /\ base = NoDoc
  /\ refTrack = "none"
  /\ SessionsIdle
  /\ VnIdle
  /\ DssIdle
  /\ data = NewBuilderData("vn")
  /\ use_default_values = FALSE
  /\ last = Request("init", <<>>, "ok", NoDoc, NoDoc, <<>>)
  /\ returned = NoValue

\* FMVirtualNetworkCreator.with_internet_access_mode
WithInternetAccessMode(internet_access_mode) ==
  /\ IF internet_access_mode \notin AccessModes
     THEN /\ last' = Request("with_internet_access_mode",
                             internet_access_mode, "ValueError", NoDoc,
                             NoDoc, <<>>)
          /\ returned' = NoValue
          /\ UNCHANGED data
     ELSE /\ data' = DictSet(data, "internetAccessMode", internet_access_mode)
          /\ last' = Request("with_internet_access_mode",
                             internet_access_mode, "ok", NoDoc, NoDoc, <<>>)
          /\ returned' = <<Self>>
  /\ UNCHANGED use_default_values
  /\ UNCHANGED besideFm

\* FMVirtualNetworkCreator.with_default_values
WithDefaultValues ==
  /\ use_default_values' = TRUE
  /\ last' = Request("with_default_values", <<>>, "ok", NoDoc, NoDoc, <<>>)
  /\ returned' = <<Self>>
  /\ UNCHANGED data
  /\ UNCHANGED besideFm

\* FMAWSVirtualNetworkCreator.with_vpc
WithVpc(aws_vpc_id, aws_subnet_id) ==
  /\ data' = DictSet(DictSet(data, "awsVpcId", aws_vpc_id),
                     "awsSubnetId", aws_subnet_id)
  /\ last' = Request("with_vpc", <<aws_vpc_id, aws_subnet_id>>, "ok", NoDoc,
                     NoDoc, <<>>)
  /\ returned' = <<Self>>
  /\ UNCHANGED use_default_values
  /\ UNCHANGED besideFm

\* FMAWSVirtualNetworkCreator.with_auto_create_security_groups
WithAutoCreateSecurityGroups ==
  /\ data' = DictSet(data, "awsAutoCreateSecurityGroups", TRUE)
  /\ last' = Request("with_auto_create_security_groups", <<>>, "ok", NoDoc,
                     NoDoc, <<>>)
  /\ returned' = <<Self>>
  /\ UNCHANGED use_default_values
  /\ UNCHANGED besideFm

\* FMAWSVirtualNetworkCreator.with_aws_security_groups
WithAwsSecurityGroups(aws_security_groups) ==
  /\ data' = DictSet(DictSet(data, "awsAutoCreateSecurityGroups", FALSE),
                     "awsSecurityGroups", aws_security_groups)
  /\ last' = Request("with_aws_security_groups", aws_security_groups, "ok",
                     NoDoc, NoDoc, <<>>)
  /\ returned' = <<Self>>
  /\ UNCHANGED use_default_values
  /\ UNCHANGED besideFm

\* FMAWSVirtualNetworkCreator.create, the POST answered
Create ==
  /\ last' = Request("create", [useDefaultValues |-> use_default_values],
                     "ok", data, CreatedNetwork(data), <<"POST">>)
  /\ returned' = <<FMAWSVirtualNetwork("client", CreatedNetwork(data))>>
  /\ UNCHANGED <<data, use_default_values>>
  /\ UNCHANGED besideFm

\* FMAWSVirtualNetworkCreator.create, the transport raising
CreateRejected ==
  /\ last' = Request("create", [useDefaultValues |-> use_default_values],
                     "RemoteRejected", data, NoDoc, <<"POST">>)
  /\ returned' = NoValue
  /\ UNCHANGED <<data, use_default_values>>
  /\ UNCHANGED besideFm

NextFm ==
  \/ \E m \in ModeInputs : WithInternetAccessMode(m)
  \/ WithDefaultValues
  \/ \E v \in {"vpc-1"} : WithVpc(v, "subnet-1")
  \/ WithAutoCreateSecurityGroups
  \/ \E n \in 0..MaxGroups : WithAwsSecurityGroups(Groups(n))
  \/ Create
  \/ CreateRejected

SpecFm == InitFm /\ [][NextFm]_vars

---------------------------------------------------------------------------
(* Claims about the virtual network builder, checked under SpecFm *)

\* the argument of the with_internet_access_mode call a step makes
ModeArgs ==
  IF last'.op = "with_internet_access_mode" THEN {last'.args} ELSE {}

\* C19: with_internet_access_mode accepts exactly "YES", "NO" and
\* "EGRESS_ONLY": for any other value it raises ValueError and leaves the
\* data of the builder as they were; for an accepted value it sets
\* internetAccessMode to it, changes no other field and returns the builder.
\* In every state of the builder internetAccessMode is absent or one of the
\* three values.
C19_AccessModeValidated ==
  [][/\ \A m \in ModeArgs :
          WithInternetAccessMode(m)
          => IF m \in {"YES", "NO", "EGRESS_ONLY"}
             THEN /\ last'.result = "ok"
                  /\ DOMAIN data' = DOMAIN data \cup {"internetAccessMode"}
                  /\ data'["internetAccessMode"] = m
                  /\ \A k \in DOMAIN data \ {"internetAccessMode"} :
                       data'[k] = data[k]
                  /\ use_default_values' = use_default_values
                  /\ returned' = <<Self>>
             ELSE /\ last'.result = "ValueError"
                  /\ data' = data
                  /\ use_default_values' = use_default_values
     /\ "internetAccessMode" \in DOMAIN data'
        => data'["internetAccessMode"] \in {"YES", "NO", "EGRESS_ONLY"}]_vars

\* a value that is not accepted was refused on a builder that has security
\* groups and the mode EGRESS_ONLY, which it keeps
C19_Witness ==
  /\ last.op = "with_internet_access_mode"
  /\ last.result = "ValueError"
  /\ last.args = "yes"
  /\ "internetAccessMode" \in DOMAIN data
  /\ data["internetAccessMode"] = "EGRESS_ONLY"
  /\ "awsSecurityGroups" \in DOMAIN data

\* the number of security groups the builder documents as the most
MaxSecurityGroups == 5

\* C20: after any sequence of builder calls, the awsSecurityGroups field of
\* the body sent by create() holds at most 5 security group ids.
C20_AtMostFiveGroups ==
  (last.op = "create" /\ "awsSecurityGroups" \in DOMAIN last.body)
  => Len(last.body["awsSecurityGroups"]) <= MaxSecurityGroups

---------------------------------------------------------------------------
(* Claims about forests in which an id may occur more than once *)

\* the positions of the nodes of f whose id is a
MatchPaths(f, a) == { q \in PathsOf(f) : NodeAt(f, q).id = a }

\* the first of them in pre-order
FirstPath(f, a) ==
  CHOOSE q \in MatchPaths(f, a) :
    \A r \in MatchPaths(f, a) \ {q} : PathBefore(q, r)

RECURSIVE DeleteAt(_, _)
\* the forest f without the node at position q and its subtree
DeleteAt(f, q) ==
  IF Len(q) = 1
  THEN [k \in 1..(Len(f) - 1) |-> IF k < q[1] THEN f[k] ELSE f[k + 1]]
  ELSE [f EXCEPT ![q[1]].children = DeleteAt(f[q[1]].children, Tail(q))]

\* what C21 and its amended form share: the node returned is the first match
\* in pre-order, a removal deletes the node at that position and nothing
\* else, a lookup without removal and a lookup of an absent id change
\* nothing, and the absent id gives None without an exception
FirstMatchLookup(a, remove) ==
  IF a \in IdsOf(Taxonomy)
  THEN /\ returned' = <<NodeAt(Taxonomy, FirstPath(Taxonomy, a))>>
       /\ Taxonomy' = IF remove THEN DeleteAt(Taxonomy, FirstPath(Taxonomy, a))
                      ELSE Taxonomy
  ELSE /\ returned' = NoValue
       /\ last'.result = "ok"
       /\ Taxonomy' = Taxonomy

\* C21 as stated: in every forest, ids repeated or not, the lookup returns
\* the first node in pre-order whose id matches; with remove=True only that
\* occurrence is detached and the later occurrences stay; with no match it
\* returns None, raises nothing and leaves the forest as it was.
C21_AsStated ==
  [][\A a \in {last'.article_id} : \A remove \in BOOLEAN :
       RetrieveCall(a, remove)
       => /\ FirstMatchLookup(a, remove)
          /\ (remove /\ a \in IdsOf(Taxonomy))
             => Occurrences(Taxonomy', a) = Occurrences(Taxonomy, a) - 1]_vars

\* C21 amended: the later occurrences that lie outside the subtree of the
\* first one stay; those inside it leave the forest with it.
C21_FirstMatchInPreOrder ==
  [][\A a \in {last'.article_id} : \A remove \in BOOLEAN :
       RetrieveCall(a, remove)
       => /\ FirstMatchLookup(a, remove)
          /\ (remove /\ a \in IdsOf(Taxonomy))
             => Occurrences(Taxonomy', a) =
                  Occurrences(Taxonomy, a)
                    - Occurrences(<<NodeAt(Taxonomy, FirstPath(Taxonomy, a))>>,
                                  a)]_vars

\* an id that occurs as a root and, before it in pre-order, below another
\* root was removed: the nested occurrence is gone, the root one is left
C21_Witness ==
  /\ last.op = "retrieve_remove"
  /\ returned # NoValue
  /\ Occurrences(remote["taxonomy"], last.article_id) = 2
  /\ Nested(remote["taxonomy"], last.article_id)
  /\ remote["taxonomy"][1].id # last.article_id
  /\ Occurrences(Taxonomy, last.article_id) = 1
  /\ ~Nested(Taxonomy, last.article_id)

\* the forest f without the first node in pre-order whose id is a
Remaining(f, a) == DeleteAt(f, FirstPath(f, a))

RECURSIVE InsertLastUnder(_, _, _)
\* the forest f with x as the new last child of the node at position q, as
\* the new last root for the empty position
InsertLastUnder(f, q, x) ==
  IF q = <<>> THEN f \o <<x>>
  ELSE [f EXCEPT ![q[1]].children = InsertLastUnder(f[q[1]].children,
                                                     Tail(q), x)]

\* C22: with repeated ids, a move of id under p, where p names a node in
\* the subtree of the first occurrence of id and also a node outside it,
\* does not fail: the detached subtree becomes the last child of the first
\* occurrence of p in the remaining forest.  The result is a forest that
\* holds every node it held, the moved one below a node that was not part of
\* the moved subtree.
C22_DuplicateParentAccepted ==
  [][\A m \in MoveArgs :
       ( /\ Move(m[1], m[2])
         /\ m[1] \in IdsOf(Taxonomy)
         /\ m[2] \in IdsOf(<<NodeAt(Taxonomy, FirstPath(Taxonomy, m[1]))>>)
         /\ m[2] \in IdsOf(Remaining(Taxonomy, m[1])) )
       => LET node == NodeAt(Taxonomy, FirstPath(Taxonomy, m[1]))
              rest == Remaining(Taxonomy, m[1])
          IN /\ last'.result = "ok"
             /\ Taxonomy' = InsertLastUnder(rest, FirstPath(rest, m[2]), node)
             /\ FirstPath(rest, m[2]) \in PathsOf(rest)
             /\ NodeCount(Taxonomy') = NodeCount(Taxonomy)]_vars

\* a node was moved under a node that has the id of one of its descendants
C22_Witness ==
  /\ last.op = "move"
  /\ last.result = "ok"
  /\ last.parent_article_id # last.article_id
  /\ \E n \in NodesOf(Taxonomy) :
       /\ n.id = last.parent_article_id
       /\ n.children # <<>>
       /\ n.children[Len(n.children)].id = last.article_id
       /\ last.parent_article_id
            \in IdsOf(n.children[Len(n.children)].children)

---------------------------------------------------------------------------
(* A move made twice: on the settings just fetched, with any forest on the *)
(* server, one move call is made and, when it succeeded, the same call is  *)
(* made again, any number of times.                                        *)

\* the first move_article_in_taxonomy call on the settings fetched
MoveFirst(article_id, parent_article_id) ==
  /\ last.op = "get_settings"
  /\ Move(article_id, parent_article_id)

\* the call that has just succeeded, made again with the same arguments
MoveAgain ==
  /\ last.op = "move"
  /\ last.result = "ok"
  /\ Move(last.article_id, last.parent_article_id)

NextRepeat ==
  \/ \E a \in MoveIds, p \in MoveIds \cup {NoId} : MoveFirst(a, p)
  \/ MoveAgain

SpecRepeat == InitTree /\ [][NextRepeat]_vars

\* C23: in a forest with unique ids, when move(id, p) has succeeded, p
\* omitted or present, the same call made again succeeds too and leaves the
\* forest equal to the forest after the first call.
C23_MoveIdempotent ==
  [][( /\ MoveAgain
       /\ UniqueIds(remote["taxonomy"])
       /\ Taxonomy = MoveOutcome(remote["taxonomy"], last.article_id,
                                 last.parent_article_id).taxonomy )
     => /\ last'.result = "ok"
        /\ last'.article_id = last.article_id
        /\ last'.parent_article_id = last.parent_article_id
        /\ Taxonomy' = Taxonomy]_vars

\* a node was moved behind the other child of a parent; the call made again
\* starts from this forest and ends in it
C23_Witness ==
  /\ last.op = "move"
  /\ last.result = "ok"
  /\ UniqueIds(remote["taxonomy"])
  /\ Taxonomy # remote["taxonomy"]
  /\ last.parent_article_id # NoId
  /\ Len(SubtreeOf(Taxonomy, last.parent_article_id).children) > 1
  /\ Taxonomy = MoveOutcome(Taxonomy, last.article_id,
                            last.parent_article_id).taxonomy
  /\ ENABLED MoveAgain

---------------------------------------------------------------------------
(* The frame of a successful move, checked under SpecMove *)

\* the id of the parent of the node at position q, NoId for a root
ParentIdAt(f, q) ==
  IF Len(q) = 1 THEN NoId ELSE NodeAt(f, SubSeq(q, 1, Len(q) - 1)).id

\* the number of nodes of f with id v whose parent has id u
EdgeCount(f, u, v) ==
  Cardinality({ q \in PathsOf(f) :
                  NodeAt(f, q).id = v /\ ParentIdAt(f, q) = u })

\* the ids of the sibling sequence below u in order, a left out
OthersUnder(f, u, a) ==
  LET keep(n) == n.id # a
      others == SelectSeq(SiblingsUnder(f, u), keep)
  IN [k \in 1..Len(others) |-> others[k].id]

\* C24: a successful move of id under p gives the forest with the subtree of
\* id deleted and then appended at the end of p's children (of the roots for
\* no parent); every node other than id has a parent of the same id as
\* before, or is still a root; and, ids being unique, in every children
\* sequence and in the root sequence the ids other than id come in the order
\* they had.
C24_MoveFrame ==
  [][\A m \in MoveArgs :
       (Move(m[1], m[2]) /\ last'.result = "ok")
       => LET node == NodeAt(Taxonomy, FirstPath(Taxonomy, m[1]))
              rest == Remaining(Taxonomy, m[1])
              at == IF m[2] = NoId THEN <<>> ELSE FirstPath(rest, m[2])
          IN /\ m[1] \in IdsOf(Taxonomy)
             /\ Taxonomy' = InsertLastUnder(rest, at, node)
             /\ \A u \in MoveIds \cup {NoId} : \A v \in MoveIds \ {m[1]} :
                  EdgeCount(Taxonomy', u, v) = EdgeCount(Taxonomy, u, v)
             /\ UniqueIds(Taxonomy)
                  => /\ IdsOf(Taxonomy') = IdsOf(Taxonomy)
                     /\ \A v \in IdsOf(Taxonomy) \ {m[1]} :
                          ParentOf(Taxonomy', v) = ParentOf(Taxonomy, v)
                     /\ \A u \in IdsOf(Taxonomy) \cup {NoId} :
                          OthersUnder(Taxonomy', u, m[1])
                            = OthersUnder(Taxonomy, u, m[1])]_vars

\* a node was moved below a parent that had a child already: the forest has
\* three nodes with three ids, the moved one behind its new sibling
C24_Witness ==
  /\ last.op = "move"
  /\ last.result = "ok"
  /\ UniqueIds(Taxonomy)
  /\ NodeCount(Taxonomy) = MaxNodes
  /\ last.parent_article_id # NoId
  /\ Len(Taxonomy) = 1
  /\ OthersUnder(Taxonomy, last.parent_article_id, last.article_id) # <<>>
  /\ ParentOf(Taxonomy, last.article_id) = last.parent_article_id

---------------------------------------------------------------------------
(* The virtual network handle: FMVirtualNetwork and FMAWSVirtualNetwork.   *)
(* A handle is constructed from a network the server returned, edited      *)
(* locally by the set_ methods and sent back by save.                      *)

\* Python's None as a value of a document
None == "None"

\* the id of the network: self.id, read from vn_data at construction
NetworkId == "vn-1"

\* the handle, which its set_ methods return
SelfNetwork == "network"

\* dict.update(other)
DictUpdate(d, other) == other @@ d

\* FMHTTPSStrategy.__init__
FMHTTPSStrategy(strategy_data, https_strategy, http_redirect) ==
  DictSet(DictSet(strategy_data, "httpsStrategy", https_strategy),
          "httpStrategy", IF http_redirect THEN "REDIRECT" ELSE "DISABLE")

\* FMHTTPSStrategy.disable(), self_signed(True), lets_encrypt(mail)
HttpsStrategies ==
  { FMHTTPSStrategy(NoDoc, "NONE", FALSE),
    FMHTTPSStrategy(NoDoc, "SELF_SIGNED", TRUE),
    FMHTTPSStrategy(DictSet(NoDoc, "contactMail", "ops@example.org"),
                    "LETSENCRYPT", TRUE) }

\* the arguments callers pass to set_fleet_management
FleetInputs ==
  { <<TRUE, "node-1", "CENTRAL_DEPLOYER">>,
    <<TRUE, None, "NO_MANAGED_DEPLOYER">>,
    <<FALSE, None, "NO_MANAGED_DEPLOYER">> }

\* the arguments callers pass to set_dns_strategy
DnsInputs == { <<FALSE, None, None>>, <<TRUE, "zone-1", None>> }

\* the fields the server may leave out when their value is None
NullableKeys ==
  {"eventServerNodeLabel", "awsRoute53PrivateIPZoneId",
   "awsRoute53PublicIPZoneId"}

\* a document without its fields of value None
WithoutNulls(d) ==
  [k \in { j \in DOMAIN d : ~(j \in NullableKeys /\ d[j] = None) } |-> d[k]]

\* the documents the server may hold after a PUT of body: the body, or the
\* body as the server normalises it
VnPersisted(body) == {body, WithoutNulls(body)}

\* a save that fetches the network before it sends it
SaveRefetchesFirst(local, server, stored, put_ok, get_ok) ==
  IF ~get_ok
  THEN [reqs |-> <<"GET">>, result |-> "GetRejected", body |-> NoDoc,
        response |-> NoDoc, vn_data |-> local, server |-> server]
  ELSE IF ~put_ok
  THEN [reqs |-> <<"GET", "PUT">>, result |-> "PutRejected", body |-> server,
        response |-> server, vn_data |-> server, server |-> server]
  ELSE [reqs |-> <<"GET", "PUT">>, result |-> "ok", body |-> server,
        response |-> server, vn_data |-> server, server |-> server]

\* FMVirtualNetwork.save with self.vn_data = local and the server holding
\* server: the PUT of local, which raises or leaves the server with stored,
\* then the GET, which raises or returns what the server holds, then the
\* assignment of self.vn_data
SaveSteps(local, server, stored, put_ok, get_ok) ==
  IF ~put_ok
  THEN [reqs |-> <<"PUT">>, result |-> "PutRejected", body |-> local,
        response |-> NoDoc, vn_data |-> local, server |-> server]
  ELSE IF ~get_ok
  THEN [reqs |-> <<"PUT", "GET">>, result |-> "GetRejected", body |-> local,
        response |-> NoDoc, vn_data |-> local, server |-> stored]
  ELSE [reqs |-> <<"PUT", "GET">>, result |-> "ok", body |-> local,
        response |-> stored, vn_data |-> stored, server |-> stored]

\* what a call on the network handle leaves alone
besideVn == <<wikiVars, sessionVars, fmVars, dssVars>>

\* a handle on a network as create() returned it
InitVn ==
  /\ remote = InitialDoc
  /\ settings = NoDoc
  /\ heap = Fresh(<<>>)
  /\ callerRef = NoRef
  /\ base = NoDoc
  /\ refTrack = "none"
  /\ SessionsIdle
  /\ FmIdle
  /\ DssIdle
  /\ \E m \in AccessModes :
       vn_remote = CreatedNetwork(DictSet(NewBuilderData("vn"),
                                          "internetAccessMode", m))
  /\ vn_data = vn_remote
  /\ last = Request("init", <<>>, "ok", NoDoc, NoDoc, <<>>)
  /\ returned = NoValue

\* FMVirtualNetwork.set_fleet_management
SetFleetManagement(enable, event_server, deployer_management) ==
  /\ vn_data' = DictSet(DictSet(DictSet(vn_data,
                   "managedNodesDirectory", enable),
                   "eventServerNodeLabel", event_server),
                   "nodesDirectoryDeployerMode", deployer_management)
  /\ last' = Request("set_fleet_management",
                     <<enable, event_server, deployer_management>>, "ok",
                     NoDoc, NoDoc, <<>>)
  /\ returned' = <<SelfNetwork>>
  /\ UNCHANGED vn_remote
  /\ UNCHANGED besideVn

\* FMVirtualNetwork.set_https_strategy
SetHttpsStrategy(https_strategy) ==
  /\ vn_data' = DictUpdate(vn_data, https_strategy)
  /\ last' = Request("set_https_strategy", https_strategy, "ok", NoDoc,
                     NoDoc, <<>>)
  /\ returned' = <<SelfNetwork>>
  /\ UNCHANGED vn_remote
  /\ UNCHANGED besideVn

\* FMAWSVirtualNetwork.set_dns_strategy
SetDnsStrategy(assign_domain_name, aws_private_ip_zone53_id, aws_public_ip_zone53_id) ==
  /\ vn_data' =
       IF assign_domain_name
       THEN DictSet(DictSet(DictSet(vn_data,
              "dnsStrategy", "VN_SPECIFIC_CLOUD_DNS_SERVICE"),
              "awsRoute53PrivateIPZoneId", aws_private_ip_zone53_id),
              "awsRoute53PublicIPZoneId", aws_public_ip_zone53_id)
       ELSE DictSet(vn_data, "dnsStrategy", "NONE")
  /\ last' = Request("set_dns_strategy",
                     <<assign_domain_name, aws_private_ip_zone53_id,
                       aws_public_ip_zone53_id>>, "ok", NoDoc, NoDoc, <<>>)
  /\ returned' = <<SelfNetwork>>
  /\ UNCHANGED vn_remote
  /\ UNCHANGED besideVn

\* the requests and the assignment of FMVirtualNetwork.save, with the given
\* outcomes of its two requests
SaveWith(put_ok, get_ok) ==
  /\ \E stored \in VnPersisted(vn_data) :
       \E out \in {SaveSteps(vn_data, vn_remote, stored, put_ok, get_ok)} :
         /\ vn_data' = out.vn_data
         /\ vn_remote' = out.server
         /\ last' = Request("save", NetworkId, out.result, out.body,
                            out.response, out.reqs)
  /\ UNCHANGED besideVn

\* FMVirtualNetwork.save, both requests answered
SaveNetwork ==
  /\ SaveWith(TRUE, TRUE)
  /\ returned' = NoValue

\* FMVirtualNetwork.save, the PUT raising
SaveNetworkPutRejected ==
  /\ SaveWith(FALSE, TRUE)
  /\ returned' = NoValue

\* FMVirtualNetwork.save, the PUT answered and the GET raising
SaveNetworkGetRejected ==
  /\ SaveWith(TRUE, FALSE)
  /\ returned' = NoValue

NextVn ==
  \/ \E f \in FleetInputs : SetFleetManagement(f[1], f[2], f[3])
  \/ \E h \in HttpsStrategies : SetHttpsStrategy(h)
  \/ \E d \in DnsInputs : SetDnsStrategy(d[1], d[2], d[3])
  \/ SaveNetwork
  \/ SaveNetworkPutRejected
  \/ SaveNetworkGetRejected

SpecVn == InitVn /\ [][NextVn]_vars

---------------------------------------------------------------------------
(* Claims about the virtual network handle, checked under SpecVn *)

\* C25: save() sends the PUT of vn_data first and assigns to vn_data nothing
\* but the response of the GET that follows it.  When the PUT fails no GET
\* is issued and vn_data is what it was, local changes included; when the
\* PUT succeeds and the GET fails the server holds the network as sent and
\* vn_data is still the locally edited value; when both succeed vn_data is
\* the response of the GET.
C25_PutThenGet ==
  [][(SaveNetwork \/ SaveNetworkPutRejected \/ SaveNetworkGetRejected)
     => /\ last'.op = "save"
        /\ Head(last'.reqs) = "PUT"
        /\ last'.body = vn_data
        /\ vn_data' \in {vn_data, last'.response}
        /\ last'.result = "PutRejected"
             => /\ last'.reqs = <<"PUT">>
                /\ vn_data' = vn_data
        /\ last'.result = "GetRejected"
             => /\ last'.reqs = <<"PUT", "GET">>
                /\ vn_remote' \in VnPersisted(vn_data)
                /\ vn_data' = vn_data
        /\ last'.result = "ok"
             => /\ last'.reqs = <<"PUT", "GET">>
                /\ last'.response = vn_remote'
                /\ vn_data' = last'.response]_vars

\* fleet management was set locally and saved; the PUT went through and the
\* GET failed: the server holds the new setting, in its normalised form, and
\* vn_data is the document as edited locally
C25_Witness ==
  /\ last.op = "save"
  /\ last.result = "GetRejected"
  /\ "managedNodesDirectory" \in DOMAIN vn_data
  /\ "eventServerNodeLabel" \in DOMAIN vn_data
  /\ vn_data["eventServerNodeLabel"] = None
  /\ "managedNodesDirectory" \in DOMAIN vn_remote
  /\ vn_remote["managedNodesDirectory"] = vn_data["managedNodesDirectory"]
  /\ vn_remote # vn_data
  /\ last.body = vn_data

============================================================================
